---- MODULE Spec2Model ----
(***************************************************************************)
(* Batch acquisition pipeline of the photo downloader service:             *)
(* PhotoDownloader._process_batch_training fans one                         *)
(* _process_single_photo task out per photo under the instance semaphore,  *)
(* each task runs _download_and_upload_photo (key generation, Telegram     *)
(* getFile, download, validation, S3 upload), and the gathered results are *)
(* aggregated into a PhotoUploadResult or a PhotoUploadError.              *)
(* _process_single_inference runs _download_and_upload_photo for its one   *)
(* photo, outside the semaphore.                                           *)
(*                                                                         *)
(* Spec is the train batch, OpsSpec the train batch next to the inference  *)
(* call, ItemSpec one photo under either operation with every kind of      *)
(* download answer and upload reply, FaultSpec the train batch with        *)
(* exceptions in the orchestrator's own code, LiveSpec the train batch     *)
(* that is not cancelled, under fair scheduling, SharedSpec the train      *)
(* batch next to photos of other calls on the same instance, HandlerSpec   *)
(* the train subscriber of main.py from the message to the published       *)
(* response, ReportSpec the subscriber's conversion of a batch result.     *)
(*                                                                         *)
(* Strings the code builds or inspects are sequences of tokens, so that    *)
(* f-strings are concatenations and startswith / urlparse look at the      *)
(* leading tokens.  Wall-clock fields (upload_time, processing_time,       *)
(* timestamp) and log output are left out.                                 *)
(*                                                                         *)
(* One action is one run of a task between two suspension points of the    *)
(* event loop: the code between two awaits that really suspend runs        *)
(* without interleaving.  S3Service.upload_file has no await inside (boto3 *)
(* put_object blocks), so validation, upload and the construction of the   *)
(* outcome all belong to the step that receives the download response.     *)
(***************************************************************************)
EXTENDS Integers, Sequences, FiniteSets

VARIABLES
    request,        \* the batch request handed to _process_batch_training
    pc,             \* position of _process_batch_training
    task,           \* per photo: position and locals of its fan-out task
    results,        \* per photo: what its task ended with (gather's slot)
    semaphore,      \* free permits of PhotoDownloader.semaphore
    clients,        \* photos whose task holds an open httpx.AsyncClient
    resolveCalls,   \* per photo: getFile requests issued
    fetchCalls,     \* per photo: download GET requests issued
    uploadCalls,    \* per photo: S3Service.upload_file invocations
    bucket,         \* keys of the objects put into the S3 bucket
    cancelled,      \* the batch-level call was cancelled while gathering
    result,         \* what process_photos returned or raised
    peers,          \* position of the photo of each other call on the instance
    message,        \* request.data of the message the train subscriber received
    handler,        \* position of handle_batch_training_photos
    sending,        \* the response handed to broker.publish, not yet sent
    published       \* the responses broker.publish has sent

vars == <<request, pc, task, results, semaphore, clients, resolveCalls,
          fetchCalls, uploadCalls, bucket, cancelled, result,
          peers, message, handler, sending, published>>

\* What the steps of one process_photos call leave alone
env == <<peers, message, handler, sending, published>>

(***************************************************************************)
(* Configuration (settings.py), scaled down for model checking.            *)
(***************************************************************************)
max_batch_size == 3
max_concurrent_downloads == 2
min_file_size == 2
max_file_size == 4
min_image_dimension == 2

supported_content_types ==
    {"image/jpeg", "image/jpg", "image/png", "image/gif", "image/webp", "image/bmp"}

telegram_api_url == <<"https://", "api.telegram.org">>
telegram_bot_token == "TOKEN"

(***************************************************************************)
(* Python values: a call either returns a value or raises.                 *)
(***************************************************************************)
Return(v) == [ok |-> TRUE, value |-> v]
Raise(e) == [ok |-> FALSE, exc |-> e]

\* Builtin exception classes below Exception.  asyncio.CancelledError derives
\* from BaseException and is not among them.
ExceptionClasses ==
    {"Exception", "TypeError", "ValueError", "HTTPStatusError",
     "TimeoutException", "ConnectError", "ClientError", "ReadTimeoutError",
     "MemoryError", "RuntimeError", "ConnectionClosedError"}

Raised(e) == [kind |-> "raised", exc |-> e]
Pending == [kind |-> "pending"]
NoResult == [kind |-> "none"]
NoMessage == [kind |-> "none"]
NoResponse == [kind |-> "none"]

FileUploadError(file_id, s3_key, error_code) ==
    [kind |-> "FileUploadError", file_id |-> file_id, s3_key |-> s3_key,
     error_code |-> error_code]

FileUploadResult(file_id, s3_key, file_size, content_type, width, height) ==
    [kind |-> "FileUploadResult", file_id |-> file_id, s3_key |-> s3_key,
     file_size |-> file_size, content_type |-> content_type,
     width |-> width, height |-> height]

\* isinstance(result, Exception)
IsException(r) == r.kind = "raised" /\ r.exc \in ExceptionClasses

(***************************************************************************)
(* String helpers.                                                         *)
(***************************************************************************)
Whitespace == {" ", "\t", "\n"}

RECURSIVE lstrip(_)
lstrip(s) == IF s # <<>> /\ Head(s) \in Whitespace THEN lstrip(Tail(s)) ELSE s

RECURSIVE rstrip(_)
rstrip(s) ==
    IF s # <<>> /\ s[Len(s)] \in Whitespace
    THEN rstrip(SubSeq(s, 1, Len(s) - 1))
    ELSE s

\* str.strip()
strip(s) == rstrip(lstrip(s))

\* file_id.startswith(('http://', 'https://'))
StartsWithHttp(file_id) ==
    file_id # <<>> /\ file_id[1] \in {"http://", "https://"}

\* urlparse(url) of <<scheme "://", netloc, path, ...>>: a text with no "://"
\* token in front has neither scheme nor netloc, and the netloc may be empty;
\* all([result.scheme, result.netloc])
SchemeTokens == {"http://", "https://", "ftp://"}

_validate_url(url) ==
    /\ Len(url) >= 2
    /\ url[1] \in SchemeTokens
    /\ url[2] # ""

(***************************************************************************)
(* S3Service.generate_s3_key(self, chat_id, photo_id=None,                 *)
(* file_extension=".jpg"), called with keyword arguments kwargs: Python    *)
(* raises TypeError for a keyword the signature does not have and for a    *)
(* missing required parameter.                                             *)
(***************************************************************************)
Today == "2026/01/01"

generate_s3_key(kwargs) ==
    IF \/ ~(DOMAIN kwargs \subseteq {"chat_id", "photo_id", "file_extension"})
       \/ "chat_id" \notin DOMAIN kwargs
    THEN Raise("TypeError")
    ELSE LET photo_id ==
                 IF "photo_id" \in DOMAIN kwargs /\ kwargs.photo_id # <<>>
                 THEN kwargs.photo_id
                 ELSE <<"uuid4">>
             file_extension ==
                 IF "file_extension" \in DOMAIN kwargs
                 THEN kwargs.file_extension
                 ELSE <<".jpg">>
         IN  Return(<<"photos/", kwargs.chat_id, "/", Today, "/">>
                        \o photo_id \o file_extension)

\* _build_s3_path that gives every operation the path of a train batch.
_build_s3_path_TrainFormat(req, s3_key) ==
    <<req.bot_id, "/", req.user_id, "/", req.avatar_id, "/">> \o s3_key

\* PhotoDownloader._build_s3_path.  The ids are integers put through an
\* f-string: tokens of digits, with "/" a token of its own, so that two
\* paths are the same text exactly when they are the same token sequence.
_build_s3_path(req, s3_key) ==
    IF req.header = "train"
    THEN <<req.bot_id, "/", req.user_id, "/", req.avatar_id, "/">> \o s3_key
    ELSE <<"uploads", "/", req.header, "/", req.bot_id, "/", req.user_id, "/",
           req.avatar_id, "/">> \o s3_key

\* PhotoDownloader._generate_error_s3_key
_generate_error_s3_key(photo, req) ==
    IF photo.s3_key # <<>> /\ strip(photo.s3_key) # <<>>
    THEN Return(photo.s3_key)
    ELSE generate_s3_key([user_id |-> req.user_id, photo_id |-> photo.file_id])

\* _download_and_upload_photo, lines 319-333: the key and the full S3 path
GenerateKey(photo, req) ==
    IF photo.s3_key = <<>> \/ strip(photo.s3_key) = <<>>
    THEN generate_s3_key([user_id |-> req.user_id, photo_id |-> photo.file_id,
                          file_extension |-> <<".jpg">>])
    ELSE Return(photo.s3_key)

FullKey(photo, req) ==
    LET k == GenerateKey(photo, req)
    IN  IF k.ok THEN Return(_build_s3_path(req, k.value)) ELSE k

\* One except clause of _download_and_upload_photo (lines 461-487): the
\* FileUploadError is built with the key from _generate_error_s3_key, and a
\* fault of that call leaves the handler as the task's exception.
ErrorOutcome(photo, req, error_code) ==
    LET k == _generate_error_s3_key(photo, req)
    IN  IF k.ok
        THEN FileUploadError(photo.file_id, _build_s3_path(req, k.value), error_code)
        ELSE Raised(k.exc)

\* The except chain without its clause for httpx.TimeoutException.
HandleException_NoTimeoutClause(photo, req, exc) ==
    IF exc = "HTTPStatusError" THEN ErrorOutcome(photo, req, "DOWNLOAD_HTTP_ERROR")
    ELSE IF exc \in ExceptionClasses THEN ErrorOutcome(photo, req, "UNEXPECTED_ERROR")
    ELSE Raised(exc)

\* The except chain of _download_and_upload_photo for an exception raised
\* in its try block.
HandleException(photo, req, exc) ==
    IF exc = "HTTPStatusError" THEN ErrorOutcome(photo, req, "DOWNLOAD_HTTP_ERROR")
    ELSE IF exc = "TimeoutException" THEN ErrorOutcome(photo, req, "DOWNLOAD_TIMEOUT")
    ELSE IF exc \in ExceptionClasses THEN ErrorOutcome(photo, req, "UNEXPECTED_ERROR")
    ELSE Raised(exc)

(***************************************************************************)
(* The environment: what the Telegram getFile call, the download GET and   *)
(* the S3 put_object can answer.                                           *)
(***************************************************************************)
\* getFile: a file path, a fault (transport error, non-2xx status, ok=false:
\* all below Exception), or the task being cancelled at the await.
LocatorReplies == {"ok", "fault", "cancelled"}

Image(decodable, width, height) ==
    [decodable |-> decodable, width |-> width, height |-> height]

Response(status, size, headers, image) ==
    [status |-> status, size |-> size, headers |-> headers, image |-> image]

NoBody == Response("none", 0, <<>>, Image(FALSE, 0, 0))

ValidResponse ==
    Response("ok", min_file_size, [content_type |-> "image/jpeg"],
             Image(TRUE, min_image_dimension, min_image_dimension))

TooSmallResponse ==
    Response("ok", min_file_size - 1, [content_type |-> "image/jpeg"],
             Image(TRUE, min_image_dimension, min_image_dimension))

Fault(status) == [NoBody EXCEPT !.status = status]

\* Download GET: a body, a non-2xx status (raise_for_status), a timeout,
\* another transport error, or the task being cancelled at the await.
Responses ==
    {ValidResponse, TooSmallResponse, Fault("http_error"), Fault("timeout"),
     Fault("error"), Fault("cancelled")}

\* Download GET in full: every size around the two limits, supported,
\* unsupported and absent content types, images that do not decode, that
\* have one side below the minimum, or that are exactly the minimum.
Sizes == {min_file_size - 1, min_file_size, max_file_size, max_file_size + 1}

ContentTypeHeaders ==
    {[content_type |-> "image/jpeg"], [content_type |-> "image/png"],
     [content_type |-> "text/html"], <<>>}

Images ==
    {Image(FALSE, 0, 0),
     Image(TRUE, min_image_dimension - 1, min_image_dimension),
     Image(TRUE, min_image_dimension, min_image_dimension - 1),
     Image(TRUE, min_image_dimension, min_image_dimension)}

AllResponses ==
    {Response("ok", size, headers, image) :
        size \in Sizes, headers \in ContentTypeHeaders, image \in Images}
    \cup {Fault("http_error"), Fault("timeout"), Fault("error"), Fault("cancelled")}

\* put_object: stored, or botocore ClientError
UploadReplies == {"ok", "ClientError"}

\* put_object in full: also the botocore timeout of a request that got no
\* answer within the client's deadline
AllUploadReplies == UploadReplies \cup {"ReadTimeoutError"}

\* S3Service.upload_file with an except clause that swallows the fault.
upload_file_SwallowsFault(s3_key, up) == Return(<<"https://", "bucket", "/">> \o s3_key)

\* S3Service.upload_file: the URL of the stored object; a fault of
\* put_object is logged and raised again (lines 104-110).
upload_file(s3_key, up) ==
    IF up = "ok" THEN Return(<<"https://", "bucket", "/">> \o s3_key) ELSE Raise(up)

\* A lookup that yields the empty string for an absent header.
HeadersGet_NoDefault(headers, name, default) ==
    IF name \in DOMAIN headers THEN headers[name] ELSE ""

\* response.headers.get(name, default)
HeadersGet(headers, name, default) ==
    IF name \in DOMAIN headers THEN headers[name] ELSE default

\* _validate_image_dimensions that rejects only an image with both sides
\* below the minimum.
_validate_image_dimensions_BothSides(image) ==
    IF ~image.decodable
    THEN [is_valid |-> FALSE, width |-> 0, height |-> 0,
          error_msg |-> <<"Corrupted or invalid image file", ": ", "cannot identify image file">>]
    ELSE IF image.width < min_image_dimension /\ image.height < min_image_dimension
    THEN [is_valid |-> FALSE, width |-> image.width, height |-> image.height,
          error_msg |-> <<"Image dimensions ", "do not meet minimum requirement">>]
    ELSE [is_valid |-> TRUE, width |-> image.width, height |-> image.height,
          error_msg |-> <<>>]

\* PhotoDownloader._validate_image_dimensions -> (is_valid, error_msg, w, h)
_validate_image_dimensions(image) ==
    IF ~image.decodable
    THEN [is_valid |-> FALSE, width |-> 0, height |-> 0,
          error_msg |-> <<"Corrupted or invalid image file", ": ", "cannot identify image file">>]
    ELSE IF image.width < min_image_dimension \/ image.height < min_image_dimension
    THEN [is_valid |-> FALSE, width |-> image.width, height |-> image.height,
          error_msg |-> <<"Image dimensions ", "do not meet minimum requirement">>]
    ELSE [is_valid |-> TRUE, width |-> image.width, height |-> image.height,
          error_msg |-> <<>>]

\* A substring test that never finds the part.
Contains_Never(msg, part) == FALSE

\* "Corrupted or invalid image file" in dimension_error
Contains(msg, part) == \E k \in DOMAIN msg : msg[k] = part

\* A size check that also rejects a file of exactly the minimum size.
FileTooSmall_Inclusive(size) == size <= min_file_size

\* len(file_content) < self.min_file_size (line 373)
FileTooSmall(size) == size < min_file_size

\* A size check with no upper limit.
FileTooLarge_Never(size) == FALSE

\* len(file_content) > self.max_file_size (line 364)
FileTooLarge(size) == size > max_file_size

\* A content type check that lets every type through.
IsSupported_Always(content_type) == TRUE

\* content_type in self.supported_content_types (line 383)
IsSupported(content_type) == content_type \in supported_content_types

\* _download_and_upload_photo from the download response to the return
\* (lines 360-459 and the except clauses): the task's outcome and whether
\* upload_file was invoked and stored the object.
ProcessResponse(photo, req, full_s3_key, r, up) ==
    LET NoUpload(o) == [outcome |-> o, uploaded |-> FALSE, stored |-> FALSE]
        Fail(code) == NoUpload(FileUploadError(photo.file_id, full_s3_key, code))
        content_type == HeadersGet(r.headers, "content_type", "image/jpeg")
        dims == _validate_image_dimensions(r.image)
        width == IF req.header = "train" \/ r.image.decodable THEN dims.width ELSE 0
        height == IF req.header = "train" \/ r.image.decodable THEN dims.height ELSE 0
    IN  IF r.status = "http_error" THEN NoUpload(HandleException(photo, req, "HTTPStatusError"))
        ELSE IF r.status = "timeout" THEN NoUpload(HandleException(photo, req, "TimeoutException"))
        ELSE IF r.status = "error" THEN NoUpload(HandleException(photo, req, "ConnectError"))
        ELSE IF r.status = "cancelled" THEN NoUpload(HandleException(photo, req, "CancelledError"))
        ELSE IF FileTooLarge(r.size) THEN Fail("FILE_TOO_LARGE")
        ELSE IF FileTooSmall(r.size) THEN Fail("FILE_TOO_SMALL")
        ELSE IF ~IsSupported(content_type) THEN Fail("UNSUPPORTED_FORMAT")
        ELSE IF req.header = "train" /\ ~dims.is_valid
        THEN IF Contains(dims.error_msg, "Corrupted or invalid image file")
             THEN Fail("CORRUPTED_FILE")
             ELSE Fail("IMAGE_TOO_SMALL")
        ELSE IF upload_file(full_s3_key, up).ok
        THEN [outcome |-> FileUploadResult(photo.file_id, full_s3_key, r.size,
                                           content_type, width, height),
              uploaded |-> TRUE, stored |-> up = "ok"]
        ELSE [outcome |-> HandleException(photo, req, upload_file(full_s3_key, up).exc),
              uploaded |-> TRUE, stored |-> up = "ok"]

(***************************************************************************)
(* Requests.                                                               *)
(***************************************************************************)
PhotoFile(file_id, s3_key) == [file_id |-> file_id, s3_key |-> s3_key]

\* Photos a batch is made of: direct URLs and a Telegram file id, with an
\* explicit s3_key or with the empty one the train subscriber passes.
PhotoFiles ==
    {PhotoFile(<<"https://", "cdn.example", "/a.jpg">>, <<"a.jpg">>),
     PhotoFile(<<"AgAC-1">>, <<"b.jpg">>),
     PhotoFile(<<"https://", "cdn.example", "/c.jpg">>, <<>>),
     PhotoFile(<<"https://", "cdn.example", "/d.jpg">>, <<"d.jpg">>)}

Photos == UNION {[1..n -> PhotoFiles] : n \in 0..(max_batch_size + 1)}

Requests ==
    [header : {"train"}, photos : Photos, bot_id : {"7"}, user_id : {"42"},
     avatar_id : {"9"}, batch_id : {"1"}]

N == Len(request.photos)
Items == 1..N

FileIds(req) == [i \in 1..Len(req.photos) |-> req.photos[i].file_id]

NewTask == [pc |-> "waiting", full_s3_key |-> <<>>, photo_url |-> <<>>,
            locator |-> "none", response |-> NoBody, upload |-> "none"]

\* InferencePhotoRequest: header "inf" and one photo, kept as a photos
\* list of length one; it has no batch_id.
InferenceRequests ==
    [header : {"inf"}, photos : [1..1 -> PhotoFiles], bot_id : {"7"},
     user_id : {"42"}, avatar_id : {"9"}, batch_id : {"None"}]

\* Photos of a one-photo request: also a Telegram file id with the empty
\* s3_key and a URL with no host.
ItemPhotoFiles ==
    PhotoFiles
    \cup {PhotoFile(<<"AgAC-2">>, <<>>), PhotoFile(<<"https://", "">>, <<"e.jpg">>)}

\* One photo under either operation, for two owners
ItemRequests ==
    [header : {"train"}, photos : [1..1 -> ItemPhotoFiles], bot_id : {"7", "8"},
     user_id : {"42"}, avatar_id : {"9"}, batch_id : {"1"}]
    \cup [header : {"inf"}, photos : [1..1 -> ItemPhotoFiles], bot_id : {"7", "8"},
          user_id : {"42"}, avatar_id : {"9"}, batch_id : {"None"}]

\* No other call runs on the instance and no message is being handled
InitEnv ==
    /\ peers = <<>>
    /\ message = NoMessage
    /\ handler = "idle"
    /\ sending = NoResponse
    /\ published = <<>>

\* The state in which process_photos is entered with the request
InitCall ==
    /\ pc = "start"
    /\ task = [i \in Items |-> NewTask]
    /\ results = [i \in Items |-> Pending]
    /\ semaphore = max_concurrent_downloads
    /\ clients = {}
    /\ resolveCalls = [i \in Items |-> 0]
    /\ fetchCalls = [i \in Items |-> 0]
    /\ uploadCalls = [i \in Items |-> 0]
    /\ bucket = {}
    /\ cancelled = FALSE
    /\ result = NoResult

\* The state in which process_photos is entered with a request of Rs
InitFrom(Rs) ==
    /\ request \in Rs
    /\ InitCall
    /\ InitEnv

Init == InitFrom(Requests)

(***************************************************************************)
(* _process_batch_training                                                 *)
(***************************************************************************)
\* _validate_batch without the emptiness check.
_validate_batch_AcceptsEmpty(req) ==
    IF Len(req.photos) > max_batch_size THEN Raise("ValueError") ELSE Return("None")

\* _validate_batch with the size limit off by one.
_validate_batch_LimitOffByOne(req) ==
    IF Len(req.photos) = 0 THEN Raise("ValueError")
    ELSE IF Len(req.photos) >= max_batch_size THEN Raise("ValueError")
    ELSE Return("None")

\* PhotoDownloader._validate_batch
_validate_batch(req) ==
    IF Len(req.photos) = 0 THEN Raise("ValueError")
    ELSE IF Len(req.photos) > max_batch_size THEN Raise("ValueError")
    ELSE Return("None")

\* A PhotoUploadError that names no file.
PhotoUploadError_NoFiles(req, error_code) ==
    [kind |-> "PhotoUploadError", header |-> req.header, batch_id |-> req.batch_id,
     error_code |-> error_code, failed_files |-> <<>>]

\* The except clause of _process_batch_training (lines 269-282)
PhotoUploadError(req, error_code) ==
    [kind |-> "PhotoUploadError", header |-> req.header, batch_id |-> req.batch_id,
     error_code |-> error_code, failed_files |-> FileIds(req)]

\* Lines 213-229: validation, then one _process_single_photo coroutine per
\* photo handed to asyncio.gather; a ValueError of the validation reaches
\* the except clause.
StartBatch ==
    /\ pc = "start"
    /\ request.header = "train"
    /\ IF _validate_batch(request).ok
       THEN pc' = "gather" /\ result' = result
       ELSE pc' = "done" /\ result' = PhotoUploadError(request, "BATCH_PROCESSING_ERROR")
    /\ UNCHANGED <<request, task, results, semaphore, clients, resolveCalls,
                   fetchCalls, uploadCalls, bucket, cancelled>>
    /\ UNCHANGED env

\* A task that starts over when its outcome is a failure, once more after a
\* download.
Finish_RetriesFailures(i, t, o) ==
    IF o.kind = "FileUploadError" /\ fetchCalls[i] <= 1 /\ resolveCalls[i] <= 1
    THEN /\ task' = [task EXCEPT ![i] = NewTask]
         /\ results' = results
         /\ clients' = clients \ {i}
    ELSE /\ task' = [task EXCEPT ![i] = [t EXCEPT !.pc = "done"]]
         /\ results' = [results EXCEPT ![i] = o]
         /\ clients' = clients \ {i}

\* The task of photo i ends with outcome o: `async with semaphore` releases
\* the permit and `async with httpx.AsyncClient` closes the client, on return
\* and on exception alike.
Finish(i, t, o) ==
    /\ task' = [task EXCEPT ![i] = [t EXCEPT !.pc = "done"]]
    /\ results' = [results EXCEPT ![i] = o]
    /\ clients' = clients \ {i}

\* The task runs inside _process_single_photo, under `async with
\* self.semaphore` (line 303); _process_single_inference calls
\* _download_and_upload_photo directly (line 164).
Gated == pc = "gather"
Permit == IF Gated THEN 1 ELSE 0

\* Positions of the caller at which the task of a photo runs
Running == {"gather", "inference"}

\* Leaving `async with semaphore` without giving the permit back.
Release_KeepsPermit(free) == free

\* Leaving `async with semaphore` (line 303), by return or by exception:
\* asyncio.Semaphore.release
Release(free) == free + Permit

\* A semaphore that lets a task in with no permit left.
CanAcquire_AtZero == semaphore >= 0

\* A semaphore that never makes a task wait.
CanAcquire_Always == TRUE

\* A semaphore that hands out no permit.
CanAcquire_Never == FALSE

\* `async with semaphore` (line 303): asyncio.Semaphore.acquire returns only
\* while the counter is positive.
CanAcquire == semaphore > 0

\* _process_single_photo: the permit is acquired, then
\* _download_and_upload_photo runs to its first suspension: the key and the
\* full path are built, a direct URL is validated and its download is
\* requested, any other file_id is sent to getFile.
StartItem(i) ==
    /\ pc \in Running
    /\ task[i].pc = "waiting"
    /\ Gated => CanAcquire
    /\ LET photo == request.photos[i]
           key == FullKey(photo, request)
       IN  IF ~key.ok
           THEN /\ Finish(i, task[i], HandleException(photo, request, key.exc))
                /\ UNCHANGED <<semaphore, resolveCalls, fetchCalls>>
           ELSE IF ~StartsWithHttp(photo.file_id)
           THEN /\ task' = [task EXCEPT ![i] =
                        [@ EXCEPT !.pc = "resolving", !.full_s3_key = key.value]]
                /\ resolveCalls' = [resolveCalls EXCEPT ![i] = @ + 1]
                /\ clients' = clients \cup {i}
                /\ semaphore' = semaphore - Permit
                /\ UNCHANGED <<results, fetchCalls>>
           ELSE IF ~_validate_url(photo.file_id)
           THEN /\ Finish(i, [task[i] EXCEPT !.full_s3_key = key.value],
                          FileUploadError(photo.file_id, key.value, "INVALID_TELEGRAM_URL"))
                /\ UNCHANGED <<semaphore, resolveCalls, fetchCalls>>
           ELSE /\ task' = [task EXCEPT ![i] =
                        [@ EXCEPT !.pc = "fetching", !.full_s3_key = key.value,
                                  !.photo_url = photo.file_id]]
                /\ fetchCalls' = [fetchCalls EXCEPT ![i] = @ + 1]
                /\ clients' = clients \cup {i}
                /\ semaphore' = semaphore - Permit
                /\ UNCHANGED <<results, resolveCalls>>
    /\ UNCHANGED <<request, pc, uploadCalls, bucket, cancelled, result>>
    /\ UNCHANGED env

\* _get_telegram_file_url, lines 92-105
DownloadUrl(file_path) ==
    telegram_api_url \o <<"/file/bot", telegram_bot_token, "/">> \o file_path

\* The getFile answer arrives (lines 92-105, 336-355): a fault becomes
\* TELEGRAM_API_ERROR, a cancellation leaves the task, otherwise the download
\* URL is validated and the download is requested.
ResolveReturn(i) ==
    /\ pc \in Running
    /\ task[i].pc = "resolving"
    /\ \E reply \in LocatorReplies :
         LET photo == request.photos[i]
             t == [task[i] EXCEPT !.locator = reply]
             url == DownloadUrl(<<"photos/file_", photo.file_id[1]>>)
         IN  IF reply = "fault"
             THEN /\ Finish(i, t, FileUploadError(photo.file_id, t.full_s3_key,
                                                  "TELEGRAM_API_ERROR"))
                  /\ semaphore' = Release(semaphore)
                  /\ UNCHANGED fetchCalls
             ELSE IF reply = "cancelled"
             THEN /\ Finish(i, t, HandleException(photo, request, "CancelledError"))
                  /\ semaphore' = Release(semaphore)
                  /\ UNCHANGED fetchCalls
             ELSE IF ~_validate_url(url)
             THEN /\ Finish(i, t, FileUploadError(photo.file_id, t.full_s3_key,
                                                  "INVALID_TELEGRAM_URL"))
                  /\ semaphore' = Release(semaphore)
                  /\ UNCHANGED fetchCalls
             ELSE /\ task' = [task EXCEPT ![i] =
                          [t EXCEPT !.pc = "fetching", !.photo_url = url]]
                  /\ fetchCalls' = [fetchCalls EXCEPT ![i] = @ + 1]
                  /\ UNCHANGED <<results, clients, semaphore>>
    /\ UNCHANGED <<request, pc, resolveCalls, uploadCalls, bucket, cancelled, result>>
    /\ UNCHANGED env

\* The download answer arrives (lines 359-487): status, size, content type
\* and image checks, then upload_file and the outcome, in one run.  The
\* answer is one of Rs and put_object's reply one of Us.
FetchAnswer(i, Rs, Us) ==
    /\ pc \in Running
    /\ task[i].pc = "fetching"
    /\ \E r \in Rs, up \in Us :
         LET photo == request.photos[i]
             p == ProcessResponse(photo, request, task[i].full_s3_key, r, up)
             t == [task[i] EXCEPT !.response = r,
                                  !.upload = IF p.uploaded THEN up ELSE "none"]
         IN  /\ p.uploaded \/ up = "ok"
             /\ Finish(i, t, p.outcome)
             /\ uploadCalls' = [uploadCalls EXCEPT ![i] = @ + (IF p.uploaded THEN 1 ELSE 0)]
             /\ bucket' = IF p.stored THEN bucket \cup {task[i].full_s3_key} ELSE bucket
    /\ semaphore' = Release(semaphore)
    /\ UNCHANGED <<request, pc, resolveCalls, fetchCalls, cancelled, result>>
    /\ UNCHANGED env

FetchReturn(i) == FetchAnswer(i, Responses, UploadReplies)

FetchReturnAny(i) == FetchAnswer(i, AllResponses, AllUploadReplies)

\* The pass over the gathered results without its branch for exceptions.
RECURSIVE CollectResults_SkipExceptions(_, _)
CollectResults_SkipExceptions(rs, acc) ==
    IF rs = <<>> THEN acc
    ELSE LET r == Head(rs)
             next ==
                 IF r.kind = "FileUploadResult"
                 THEN [acc EXCEPT !.successful_uploads = Append(@, r),
                                  !.total_size = @ + r.file_size]
                 ELSE IF r.kind = "FileUploadError"
                 THEN [acc EXCEPT !.failed_uploads = Append(@, r)]
                 ELSE acc
         IN  CollectResults_SkipExceptions(Tail(rs), next)

\* The pass over the gathered results without its branch for
\* FileUploadError.
RECURSIVE CollectResults_DropsErrors(_, _)
CollectResults_DropsErrors(rs, acc) ==
    IF rs = <<>> THEN acc
    ELSE LET r == Head(rs)
             next ==
                 IF IsException(r)
                 THEN [acc EXCEPT !.failed_uploads =
                           Append(@, FileUploadError(<<"unknown">>, <<"unknown">>,
                                                     "UNEXPECTED_ERROR"))]
                 ELSE IF r.kind = "FileUploadResult"
                 THEN [acc EXCEPT !.successful_uploads = Append(@, r),
                                  !.total_size = @ + r.file_size]
                 ELSE acc
         IN  CollectResults_DropsErrors(Tail(rs), next)

\* The pass over the gathered results with total_size assigned, not added to.
RECURSIVE CollectResults_AssignsSize(_, _)
CollectResults_AssignsSize(rs, acc) ==
    IF rs = <<>> THEN acc
    ELSE LET r == Head(rs)
             next ==
                 IF IsException(r)
                 THEN [acc EXCEPT !.failed_uploads =
                           Append(@, FileUploadError(<<"unknown">>, <<"unknown">>,
                                                     "UNEXPECTED_ERROR"))]
                 ELSE IF r.kind = "FileUploadResult"
                 THEN [acc EXCEPT !.successful_uploads = Append(@, r),
                                  !.total_size = r.file_size]
                 ELSE IF r.kind = "FileUploadError"
                 THEN [acc EXCEPT !.failed_uploads = Append(@, r)]
                 ELSE acc
         IN  CollectResults_AssignsSize(Tail(rs), next)

\* Lines 231-245: one pass over the gathered results
RECURSIVE CollectResults(_, _)
CollectResults(rs, acc) ==
    IF rs = <<>> THEN acc
    ELSE LET r == Head(rs)
             next ==
                 IF IsException(r)
                 THEN [acc EXCEPT !.failed_uploads =
                           Append(@, FileUploadError(<<"unknown">>, <<"unknown">>,
                                                     "UNEXPECTED_ERROR"))]
                 ELSE IF r.kind = "FileUploadResult"
                 THEN [acc EXCEPT !.successful_uploads = Append(@, r),
                                  !.total_size = @ + r.file_size]
                 ELSE IF r.kind = "FileUploadError"
                 THEN [acc EXCEPT !.failed_uploads = Append(@, r)]
                 ELSE acc
         IN  CollectResults(Tail(rs), next)

\* Lines 253-267
PhotoUploadResult(req, acc) ==
    [kind |-> "PhotoUploadResult", header |-> req.header, batch_id |-> req.batch_id,
     total_files |-> Len(req.photos),
     successful_files |-> Len(acc.successful_uploads),
     failed_files |-> Len(acc.failed_uploads),
     successful_uploads |-> acc.successful_uploads,
     failed_uploads |-> acc.failed_uploads,
     total_size |-> acc.total_size]

\* asyncio.gather(*tasks, return_exceptions=True) has every task's result or
\* exception; lines 231-267 build the PhotoUploadResult.
Aggregate ==
    /\ pc = "gather"
    /\ \A i \in Items : task[i].pc = "done"
    /\ pc' = "done"
    /\ result' = PhotoUploadResult(request,
           CollectResults(results, [successful_uploads |-> <<>>,
                                    failed_uploads |-> <<>>, total_size |-> 0]))
    /\ UNCHANGED <<request, task, results, semaphore, clients, resolveCalls,
                   fetchCalls, uploadCalls, bucket, cancelled>>
    /\ UNCHANGED env

\* The caller cancels the batch call while it awaits the gather (line 229):
\* gather cancels every unfinished task, each leaves its `async with` blocks
\* with CancelledError (permit released, client closed), and the gather
\* raises CancelledError, which `except Exception` (line 269) does not catch.
CancelBatch ==
    /\ pc = "gather"
    /\ \E i \in Items : task[i].pc # "done"
    /\ task' = [i \in Items |-> [task[i] EXCEPT !.pc = "done"]]
    /\ results' = [i \in Items |->
                      IF task[i].pc = "done" THEN results[i] ELSE Raised("CancelledError")]
    /\ semaphore' = semaphore
                      + Cardinality({i \in Items : task[i].pc \in {"resolving", "fetching"}})
    /\ clients' = {}
    /\ cancelled' = TRUE
    /\ pc' = "done"
    /\ result' = Raised("CancelledError")
    /\ UNCHANGED <<request, resolveCalls, fetchCalls, uploadCalls, bucket>>
    /\ UNCHANGED env

Next ==
    \/ StartBatch
    \/ \E i \in Items : StartItem(i)
    \/ \E i \in Items : ResolveReturn(i)
    \/ \E i \in Items : FetchReturn(i)
    \/ Aggregate
    \/ CancelBatch

Spec == Init /\ [][Next]_vars

(***************************************************************************)
(* Faults of _process_batch_training itself, outside the tasks.            *)
(***************************************************************************)
\* What the interpreter may raise in the orchestrator's own code
OrchestratorFaults == {"MemoryError", "RuntimeError"}

\* _process_batch_training without its except clause.
BatchExcept_Reraises(req, exc) == Raised(exc)

\* `except Exception` of _process_batch_training (lines 269-282)
BatchExcept(req, exc) ==
    IF exc \in ExceptionClasses
    THEN PhotoUploadError(req, "BATCH_PROCESSING_ERROR")
    ELSE Raised(exc)

\* An exception is raised while the coroutines are created (lines 216-226)
\* or while the gathered results are turned into the PhotoUploadResult
\* (lines 231-267): the try block is left for the except clause.
OrchestratorFault ==
    /\ \/ pc = "start" /\ request.header = "train" /\ _validate_batch(request).ok
       \/ pc = "gather" /\ \A i \in Items : task[i].pc = "done"
    /\ \E exc \in OrchestratorFaults :
         result' = BatchExcept(request, exc)
    /\ pc' = "done"
    /\ UNCHANGED <<request, task, results, semaphore, clients, resolveCalls,
                   fetchCalls, uploadCalls, bucket, cancelled>>
    /\ UNCHANGED env

NextFault ==
    \/ Next
    \/ OrchestratorFault

FaultSpec == Init /\ [][NextFault]_vars

(***************************************************************************)
(* The batch call when nobody cancels it and every awaited call answers.   *)
(***************************************************************************)
\* Positions a batch can have photos at
Slots == 1..(max_batch_size + 1)

\* The photo at position i of a batch: direct URLs and Telegram file ids
\* with an explicit s3_key, and a direct URL with the empty one.
LivePhoto(i) ==
    IF i % 4 = 1 THEN PhotoFile(<<"https://", "cdn.example", "/a.jpg">>, <<"a.jpg">>)
    ELSE IF i % 4 = 2 THEN PhotoFile(<<"AgAC-1">>, <<"b.jpg">>)
    ELSE IF i % 4 = 3 THEN PhotoFile(<<"https://", "cdn.example", "/d.jpg">>, <<"d.jpg">>)
    ELSE PhotoFile(<<"https://", "cdn.example", "/c.jpg">>, <<>>)

\* Batches of every length from the empty one to one above max_batch_size
LiveRequests ==
    {r \in Requests :
        \A i \in 1..Len(r.photos) : r.photos[i] = LivePhoto(i)}

InitLive == InitFrom(LiveRequests)

NextLive ==
    \/ StartBatch
    \/ \E i \in Items : StartItem(i)
    \/ \E i \in Items : ResolveReturn(i)
    \/ \E i \in Items : FetchReturn(i)
    \/ Aggregate

\* The event loop runs every ready task (a task woken by the semaphore or by
\* the answer of its getFile or download request), and every request is
\* answered: httpx and boto3 calls end with a reply, a fault or their timeout.
Fairness ==
    /\ WF_vars(StartBatch)
    /\ \A i \in Slots : WF_vars(i \in Items /\ StartItem(i))
    /\ \A i \in Slots : WF_vars(i \in Items /\ ResolveReturn(i))
    /\ \A i \in Slots : WF_vars(i \in Items /\ FetchReturn(i))
    /\ WF_vars(Aggregate)

LiveSpec == InitLive /\ [][NextLive]_vars /\ Fairness

(***************************************************************************)
(* Other calls on the same PhotoDownloader instance (the module-level      *)
(* photo_downloader): a photo of another train batch and the photo of an   *)
(* inference call, each a direct URL with an explicit s3_key, so that its  *)
(* first suspension is the download.                                       *)
(***************************************************************************)
PeerCalls == {"train", "inf"}

\* Photos of other calls whose download or upload is under way
PeersInFlight == {p \in PeerCalls : peers[p] = "fetching"}

\* Permits the photo of a call of kind p takes: _process_single_photo enters
\* `async with semaphore` (line 303), _process_single_inference calls
\* _download_and_upload_photo directly (line 164).
PeerPermit(p) == IF p = "train" THEN 1 ELSE 0

\* The photo of the other call is started and requests its download
PeerStart(p) ==
    /\ peers[p] = "waiting"
    /\ p = "train" => CanAcquire
    /\ peers' = [peers EXCEPT ![p] = "fetching"]
    /\ semaphore' = semaphore - PeerPermit(p)
    /\ UNCHANGED <<request, pc, task, results, clients, resolveCalls, fetchCalls,
                   uploadCalls, bucket, cancelled, result,
                   message, handler, sending, published>>

\* The download of the other call's photo is answered and the photo ends
PeerReturn(p) ==
    /\ peers[p] = "fetching"
    /\ peers' = [peers EXCEPT ![p] = "done"]
    /\ semaphore' = semaphore + PeerPermit(p)
    /\ UNCHANGED <<request, pc, task, results, clients, resolveCalls, fetchCalls,
                   uploadCalls, bucket, cancelled, result,
                   message, handler, sending, published>>

InitShared ==
    /\ request \in LiveRequests
    /\ InitCall
    /\ peers = [p \in PeerCalls |-> "waiting"]
    /\ message = NoMessage
    /\ handler = "idle"
    /\ sending = NoResponse
    /\ published = <<>>

NextShared ==
    \/ StartBatch
    \/ \E i \in Items : StartItem(i)
    \/ \E i \in Items : ResolveReturn(i)
    \/ \E i \in Items : FetchReturn(i)
    \/ Aggregate
    \/ \E p \in PeerCalls : PeerStart(p)
    \/ \E p \in PeerCalls : PeerReturn(p)

SharedSpec == InitShared /\ [][NextShared]_vars

(***************************************************************************)
(* main.py: the train subscriber handle_batch_training_photos.             *)
(***************************************************************************)
\* schemas.ReportItem as it arrives: status and reason play no part here
ReportItem(file_id, mime_type, media_type) ==
    [file_id |-> file_id, mime_type |-> mime_type, media_type |-> media_type]

\* Literal["photo", "document"]
MediaTypes == {"photo", "document"}

\* Reports of every length from one item (min_length=1) to one above
\* max_batch_size; the item at position i names the file of LivePhoto(i).
Reports ==
    UNION {{[i \in 1..n |-> ReportItem(LivePhoto(i).file_id, "image/jpg", m[i])] :
               m \in [1..n -> MediaTypes]} : n \in Slots}

\* request.data of a PhotoUploadRequest message (PayloadData)
Messages ==
    [avatar_id : {"9"}, user_id : {"42"}, bot_id : {"7"}, batch_id : {"1"},
     report : Reports]

\* Lines 98-114: the object the handler hands to process_photos.  Its class
\* is created on the spot with type('LegacyRequest', (), {...}).
legacy_request(data) ==
    [class |-> "LegacyRequest", header |-> "train",
     photos |-> [i \in 1..Len(data.report) |-> PhotoFile(data.report[i].file_id, <<>>)],
     bot_id |-> data.bot_id, user_id |-> data.user_id,
     avatar_id |-> data.avatar_id, batch_id |-> data.batch_id]

\* PhotoDownloader.process_photos (lines 61-68): the isinstance dispatch
process_photos(class) ==
    IF class = "InferencePhotoRequest" THEN Return("_process_single_inference")
    ELSE IF class = "PhotoUploadRequest" THEN Return("_process_batch_training")
    ELSE Raise("ValueError")

\* map_error_code_to_reason (lines 28-55)
map_error_code_to_reason(error_code) ==
    CASE error_code = "TELEGRAM_API_ERROR" -> "telegram_api_error"
      [] error_code = "INVALID_TELEGRAM_URL" -> "invalid_url"
      [] error_code = "FILE_TOO_LARGE" -> "file_too_large"
      [] error_code = "FILE_TOO_SMALL" -> "file_too_small"
      [] error_code = "IMAGE_TOO_SMALL" -> "image_too_small"
      [] error_code = "DOWNLOAD_HTTP_ERROR" -> "download_failed"
      [] error_code = "DOWNLOAD_TIMEOUT" -> "download_timeout"
      [] error_code = "UNEXPECTED_ERROR" -> "processing_error"
      [] error_code = "INTERNAL_ERROR" -> "internal_error"
      [] error_code = "BATCH_PROCESSING_ERROR" -> "batch_error"
      [] error_code = "INFERENCE_PROCESSING_ERROR" -> "inference_error"
      [] error_code = "DUPLICATE_FILE" -> "duplicate"
      [] error_code = "UNSUPPORTED_FORMAT" -> "unsupported_format"
      [] error_code = "CORRUPTED_FILE" -> "corrupted_file"
      [] OTHER -> "general"

\* An error report that keeps only the first item of the message.
error_report_OnlyFirst(report, reason) ==
    <<[file_id |-> report[1].file_id, mime_type |-> report[1].mime_type,
       media_type |-> report[1].media_type, status |-> "error", reason |-> reason]>>

\* Lines 124-132 and 217-225: one error entry per item of the message
error_report(report, reason) ==
    [i \in 1..Len(report) |->
        [file_id |-> report[i].file_id, mime_type |-> report[i].mime_type,
         media_type |-> report[i].media_type, status |-> "error", reason |-> reason]]

\* Lines 162-179: one entry per successful upload; the item of the message is
\* looked up by the upload's position among the successes (enumerate, 0-based)
success_entries(report, successful_uploads) ==
    [k \in 1..Len(successful_uploads) |->
        LET upload_result == successful_uploads[k]
            original_report == IF k - 1 < Len(report) THEN report[k] ELSE report[1]
        IN  [file_id |-> upload_result.file_id,
             mime_type |-> upload_result.content_type,
             media_type |-> original_report.media_type,
             properties |-> [width |-> upload_result.width,
                             height |-> upload_result.height,
                             file_size |-> upload_result.file_size,
                             s3_key |-> upload_result.s3_key],
             status |-> "success", reason |-> "None"]]

\* Lines 182-189: one entry per failed upload, with default types
error_entries(failed_uploads) ==
    [k \in 1..Len(failed_uploads) |->
        [file_id |-> failed_uploads[k].file_id, mime_type |-> "image/jpeg",
         media_type |-> "photo", status |-> "error",
         reason |-> map_error_code_to_reason(failed_uploads[k].error_code)]]

\* Lines 162-189
success_report(report, res) ==
    success_entries(report, res.successful_uploads) \o error_entries(res.failed_uploads)

\* response_payload and response_headers (lines 134-148, 191-205, 227-241)
Response_(event, data, report) ==
    [event |-> event,
     data |-> [avatar_id |-> data.avatar_id, user_id |-> data.user_id,
               bot_id |-> data.bot_id, batch_id |-> data.batch_id,
               report |-> report]]

\* `except Exception` of the handler (lines 213-247), up to its publish
HandlerExcept(exc) ==
    IF exc \in ExceptionClasses
    THEN /\ sending' = Response_("on_preparing_error", message,
                                 error_report(message.report, "processing_error"))
         /\ handler' = "publishing_except"
    ELSE /\ sending' = NoResponse
         /\ handler' = "raised"

\* Lines 90-117: the message is turned into the legacy request and
\* process_photos is called with it; an exception of the call reaches the
\* except clause, otherwise the handler awaits the call.
HandleTrain ==
    /\ handler = "received"
    /\ LET route == process_photos(request.class)
       IN  IF route.ok
           THEN /\ handler' = "processing"
                /\ UNCHANGED <<result, sending>>
           ELSE /\ result' = Raised(route.exc)
                /\ HandlerExcept(route.exc)
    /\ UNCHANGED <<request, pc, task, results, semaphore, clients, resolveCalls,
                   fetchCalls, uploadCalls, bucket, cancelled,
                   peers, message, published>>

\* Lines 119-211: process_photos has returned; its result is turned into the
\* response, up to the publish.
HandleResult ==
    /\ handler = "processing"
    /\ pc = "done"
    /\ IF result.kind = "raised"
       THEN HandlerExcept(result.exc)
       ELSE IF result.kind = "PhotoUploadError"
       THEN /\ sending' = Response_("on_preparing_error", message,
                                    error_report(message.report,
                                        map_error_code_to_reason("BATCH_PROCESSING_ERROR")))
            /\ handler' = "publishing"
       ELSE /\ sending' = Response_("on_preparing_success", message,
                                    success_report(message.report, result))
            /\ handler' = "publishing"
    /\ UNCHANGED <<request, pc, task, results, semaphore, clients, resolveCalls,
                   fetchCalls, uploadCalls, bucket, cancelled, result,
                   peers, message, published>>

\* broker.publish (lines 150, 207, 243) sends the response or raises; a fault
\* inside the try block reaches the except clause, a fault inside the except
\* clause leaves the handler.
PublishReplies == {"ok", "ConnectionClosedError"}

PublishReturn ==
    /\ handler \in {"publishing", "publishing_except"}
    /\ \E reply \in PublishReplies :
         IF reply = "ok"
         THEN /\ published' = Append(published, sending)
              /\ sending' = NoResponse
              /\ handler' = "done"
         ELSE IF handler = "publishing"
         THEN /\ HandlerExcept(reply)
              /\ UNCHANGED published
         ELSE /\ sending' = NoResponse
              /\ handler' = "raised"
              /\ UNCHANGED published
    /\ UNCHANGED <<request, pc, task, results, semaphore, clients, resolveCalls,
                   fetchCalls, uploadCalls, bucket, cancelled, result,
                   peers, message>>

\* The subscriber has received a message
InitHandler ==
    /\ message \in Messages
    /\ request = legacy_request(message)
    /\ InitCall
    /\ peers = <<>>
    /\ handler = "received"
    /\ sending = NoResponse
    /\ published = <<>>

NextHandler ==
    \/ HandleTrain
    \/ PublishReturn

HandlerSpec == InitHandler /\ [][NextHandler]_vars

(***************************************************************************)
(* The handler from line 119 on: the conversion of what process_photos     *)
(* returns for a train batch into the published response.                  *)
(***************************************************************************)
\* What the task of a photo can end with: a FileUploadResult, a
\* FileUploadError, or an exception (lines 450-487)
TaskOutcomes(photo, req) ==
    {FileUploadResult(photo.file_id, _build_s3_path(req, <<"k.jpg">>), min_file_size,
                      "image/jpeg", min_image_dimension, min_image_dimension),
     FileUploadError(photo.file_id, _build_s3_path(req, <<"k.jpg">>), "DOWNLOAD_TIMEOUT"),
     Raised("TypeError")}

\* What asyncio.gather (line 229) can hold for the photos of a request
GatheredResults(req) ==
    {rs \in [1..Len(req.photos) ->
                UNION {TaskOutcomes(req.photos[i], req) : i \in 1..Len(req.photos)}] :
        \A i \in 1..Len(req.photos) : rs[i] \in TaskOutcomes(req.photos[i], req)}

\* process_photos has returned the result of _process_batch_training for the
\* photos of the message: the PhotoUploadError of a batch that failed
\* validation, or the PhotoUploadResult built from the gathered results.
InitReport ==
    /\ message \in Messages
    /\ request = legacy_request(message)
    /\ pc = "done"
    /\ task = [i \in Items |-> [NewTask EXCEPT !.pc = "done"]]
    /\ IF _validate_batch(request).ok
       THEN /\ results \in GatheredResults(request)
            /\ result = PhotoUploadResult(request,
                   CollectResults(results, [successful_uploads |-> <<>>,
                                            failed_uploads |-> <<>>, total_size |-> 0]))
       ELSE /\ results = [i \in Items |-> Pending]
            /\ result = PhotoUploadError(request, "BATCH_PROCESSING_ERROR")
    /\ semaphore = max_concurrent_downloads
    /\ clients = {}
    /\ resolveCalls = [i \in Items |-> 0]
    /\ fetchCalls = [i \in Items |-> 0]
    /\ uploadCalls = [i \in Items |-> 0]
    /\ bucket = {}
    /\ cancelled = FALSE
    /\ peers = <<>>
    /\ handler = "processing"
    /\ sending = NoResponse
    /\ published = <<>>

NextReport ==
    \/ HandleResult
    \/ PublishReturn

ReportSpec == InitReport /\ [][NextReport]_vars

(***************************************************************************)
(* _process_single_inference                                               *)
(***************************************************************************)
\* Lines 170-178 and 195-203: the PhotoUploadError of the inference call
InferenceError(req, error_code) ==
    [kind |-> "PhotoUploadError", header |-> req.header, batch_id |-> "None",
     error_code |-> error_code, failed_files |-> <<req.photos[1].file_id>>]

\* Lines 181-189
InferencePhotoResult(req, upload_result) ==
    [kind |-> "InferencePhotoResult", header |-> req.header,
     upload_result |-> upload_result]

\* process_photos hands an InferencePhotoRequest to
\* _process_single_inference, which awaits _download_and_upload_photo for
\* request.photo (lines 62-63, 164).
StartInference ==
    /\ pc = "start"
    /\ request.header = "inf"
    /\ pc' = "inference"
    /\ UNCHANGED <<request, task, results, semaphore, clients, resolveCalls,
                   fetchCalls, uploadCalls, bucket, cancelled, result>>
    /\ UNCHANGED env

\* _download_and_upload_photo is back (lines 166-203): a FileUploadError
\* becomes a PhotoUploadError with its error_code, a FileUploadResult an
\* InferencePhotoResult, an exception below Exception the
\* INFERENCE_PROCESSING_ERROR; CancelledError leaves the call.
FinishInference ==
    /\ pc = "inference"
    /\ task[1].pc = "done"
    /\ pc' = "done"
    /\ result' =
         IF results[1].kind = "FileUploadError"
         THEN InferenceError(request, results[1].error_code)
         ELSE IF results[1].kind = "FileUploadResult"
         THEN InferencePhotoResult(request, results[1])
         ELSE IF IsException(results[1])
         THEN InferenceError(request, "INFERENCE_PROCESSING_ERROR")
         ELSE results[1]
    /\ UNCHANGED <<request, task, results, semaphore, clients, resolveCalls,
                   fetchCalls, uploadCalls, bucket, cancelled>>
    /\ UNCHANGED env

(***************************************************************************)
(* Both operations of process_photos side by side: train batches and the   *)
(* single-photo inference call.                                            *)
(***************************************************************************)
InitOps == InitFrom(Requests \cup InferenceRequests)

NextOps ==
    \/ StartBatch
    \/ StartInference
    \/ \E i \in Items : StartItem(i)
    \/ \E i \in Items : ResolveReturn(i)
    \/ \E i \in Items : FetchReturn(i)
    \/ Aggregate
    \/ FinishInference
    \/ CancelBatch

OpsSpec == InitOps /\ [][NextOps]_vars

(***************************************************************************)
(* One photo under either operation, with every kind of download answer    *)
(* and upload reply.                                                       *)
(***************************************************************************)
InitItem == InitFrom(ItemRequests)

NextItem ==
    \/ StartBatch
    \/ StartInference
    \/ StartItem(1)
    \/ ResolveReturn(1)
    \/ FetchReturnAny(1)
    \/ Aggregate
    \/ FinishInference

ItemSpec == InitItem /\ [][NextItem]_vars

(***************************************************************************)
(* Properties.                                                             *)
(***************************************************************************)
Outcomes == result.successful_uploads \o result.failed_uploads

NoNetworkCalls ==
    /\ \A i \in Items : resolveCalls[i] = 0 /\ fetchCalls[i] = 0 /\ uploadCalls[i] = 0
    /\ clients = {}
    /\ bucket = {}

UniqueIds == \A i, j \in Items : request.photos[i].file_id = request.photos[j].file_id => i = j

TaskCancelled(i) == results[i] = Raised("CancelledError")

\* Error codes _download_and_upload_photo classifies an item with
PerItemKinds ==
    {"TELEGRAM_API_ERROR", "INVALID_TELEGRAM_URL", "FILE_TOO_LARGE", "FILE_TOO_SMALL",
     "UNSUPPORTED_FORMAT", "IMAGE_TOO_SMALL", "CORRUPTED_FILE", "DOWNLOAD_HTTP_ERROR",
     "DOWNLOAD_TIMEOUT", "UNEXPECTED_ERROR"}

\* C1: a returned PhotoUploadResult has len(successful_uploads) +
\* len(failed_uploads) = total_files = number of photos of the request,
\* however the tasks ended (outcome, exception, cancelled).
C1_CountInvariant ==
    (pc = "done" /\ result.kind = "PhotoUploadResult") =>
        /\ Len(result.successful_uploads) + Len(result.failed_uploads) = result.total_files
        /\ result.successful_files + result.failed_files = result.total_files
        /\ result.total_files = N

\* C2: in a PhotoUploadResult of a batch with unique ids whose tasks all
\* ended with an outcome or an exception, every photo's file_id is the
\* file_id of exactly one outcome, and every outcome's file_id is the
\* file_id of a photo of the request.
C2_EveryIdExactlyOnce ==
    (pc = "done" /\ result.kind = "PhotoUploadResult" /\ UniqueIds
        /\ \A i \in Items : ~TaskCancelled(i)) =>
        /\ \A i \in Items :
             Cardinality({k \in DOMAIN Outcomes :
                             Outcomes[k].file_id = request.photos[i].file_id}) = 1
        /\ \A k \in DOMAIN Outcomes :
             \E i \in Items : Outcomes[k].file_id = request.photos[i].file_id

\* C3 (as the code has it): an empty batch never reaches the fan-out, no
\* getFile, download or upload call is made, and the call returns a
\* PhotoUploadError with error_code BATCH_PROCESSING_ERROR.
C3_EmptyBatchRejected ==
    (N = 0) =>
        /\ pc \in {"start", "done"}
        /\ NoNetworkCalls
        /\ pc = "done" =>
             /\ result.kind = "PhotoUploadError"
             /\ result.error_code = "BATCH_PROCESSING_ERROR"
             /\ result.failed_files = <<>>

\* C3 (original): an empty batch returns a critical error with error kind
\* VALIDATION_ERROR and no network call is made.
C3_EmptyBatchValidationError ==
    (N = 0 /\ pc = "done") =>
        /\ result.kind = "PhotoUploadError"
        /\ result.error_code = "VALIDATION_ERROR"
        /\ NoNetworkCalls

C3_EmptyBatchWitness ==
    N = 0 /\ pc = "done" /\ result.kind = "PhotoUploadError"

\* C4 (as the code has it): a batch of max_batch_size + 1 photos never
\* reaches the fan-out, no getFile, download or upload call is made and the
\* call returns a PhotoUploadError with error_code BATCH_PROCESSING_ERROR
\* naming every file_id; a batch of exactly max_batch_size photos passes
\* _validate_batch.
C4_OversizeBatchRejected ==
    /\ (N = max_batch_size + 1) =>
          /\ pc \in {"start", "done"}
          /\ NoNetworkCalls
          /\ pc = "done" =>
               /\ result.kind = "PhotoUploadError"
               /\ result.error_code = "BATCH_PROCESSING_ERROR"
               /\ result.failed_files = FileIds(request)
    /\ (N = max_batch_size /\ pc # "start") => result.kind # "PhotoUploadError"

\* C4 (original): a batch of max_batch_size + 1 photos with unique ids
\* returns a critical error with error kind VALIDATION_ERROR, no network
\* call is made, and a batch of exactly max_batch_size photos passes.
C4_OversizeValidationError ==
    /\ (N = max_batch_size + 1 /\ UniqueIds /\ pc = "done") =>
          /\ result.kind = "PhotoUploadError"
          /\ result.error_code = "VALIDATION_ERROR"
          /\ NoNetworkCalls
    /\ (N = max_batch_size /\ pc # "start") => result.kind # "PhotoUploadError"

C4_OversizeWitness ==
    N = max_batch_size + 1 /\ pc = "done" /\ result.kind = "PhotoUploadError"

\* C5: for a batch within the size limit in which two photos share a
\* file_id, no getFile or download call is made for any photo, and the call
\* returns a critical error with error kind VALIDATION_ERROR.
C5_DuplicateIdsRejected ==
    (N <= max_batch_size /\ ~UniqueIds) =>
        /\ \A i \in Items : resolveCalls[i] = 0 /\ fetchCalls[i] = 0
        /\ pc = "done" =>
             /\ result.kind = "PhotoUploadError"
             /\ result.error_code = "VALIDATION_ERROR"

\* Photos whose download has been requested and whose task has not ended:
\* the download and, in the same run, the upload.
InFlight == {i \in Items : task[i].pc = "fetching"}

\* C6: at most max_concurrent_downloads photos are in the download or upload
\* phase at once, in every reachable state.
C6_InFlightBounded == Cardinality(InFlight) <= max_concurrent_downloads

C6_InFlightWitness ==
    /\ Cardinality(InFlight) = max_concurrent_downloads
    /\ \E i \in Items : task[i].pc = "waiting"
    /\ N > max_concurrent_downloads

\* What the collaborators answered to photo i: the locator failed / every
\* call the task made was answered without fault and with valid content.
LocatorFailed(i) == task[i].locator = "fault"

FetchableAndValid(i) ==
    /\ task[i].locator \in {"none", "ok"}
    /\ task[i].response \in {NoBody, ValidResponse}
    /\ task[i].upload \in {"none", "ok"}
    /\ ~TaskCancelled(i)

\* C7: when the locator fails for exactly one photo of a batch with unique
\* ids and every other photo is fetchable and valid, the call returns a
\* PhotoUploadResult in which that photo is a failure with the locator's
\* error code (TELEGRAM_API_ERROR) and every other photo is a success.
C7_LocatorFailureIsolated ==
    \A i \in Items :
        (/\ pc = "done" /\ ~cancelled /\ UniqueIds
         /\ LocatorFailed(i)
         /\ \A j \in Items \ {i} : FetchableAndValid(j)) =>
            /\ result.kind = "PhotoUploadResult"
            /\ results[i].kind = "FileUploadError"
            /\ results[i].error_code = "TELEGRAM_API_ERROR"
            /\ \A j \in Items \ {i} : results[j].kind = "FileUploadResult"
            /\ result.successful_files = N - 1
            /\ result.failed_files = 1

\* Position of photo i's entry in failed_uploads / successful_uploads: the
\* lists are filled in the order of the photos.
FailedUpTo(i) ==
    Cardinality({j \in 1..i : IsException(results[j]) \/ results[j].kind = "FileUploadError"})

SucceededUpTo(i) ==
    Cardinality({j \in 1..i : results[j].kind = "FileUploadResult"})

\* C8: when the batch call is not cancelled and a task ends with an
\* exception, the call returns a PhotoUploadResult in which that photo's
\* entry of failed_uploads has error_code UNEXPECTED_ERROR and every other
\* task's FileUploadResult or FileUploadError is present unchanged.
C8_ExceptionBecomesFailure ==
    (pc = "done" /\ ~cancelled /\ \E i \in Items : IsException(results[i])) =>
        /\ result.kind = "PhotoUploadResult"
        /\ \A i \in Items :
             /\ IsException(results[i]) =>
                  /\ FailedUpTo(i) \in DOMAIN result.failed_uploads
                  /\ result.failed_uploads[FailedUpTo(i)].error_code = "UNEXPECTED_ERROR"
             /\ results[i].kind = "FileUploadError" =>
                  /\ FailedUpTo(i) \in DOMAIN result.failed_uploads
                  /\ result.failed_uploads[FailedUpTo(i)] = results[i]
             /\ results[i].kind = "FileUploadResult" =>
                  /\ SucceededUpTo(i) \in DOMAIN result.successful_uploads
                  /\ result.successful_uploads[SucceededUpTo(i)] = results[i]

C8_ExceptionWitness ==
    /\ pc = "done" /\ ~cancelled
    /\ result.kind = "PhotoUploadResult"
    /\ \E i, j, k \in Items :
         /\ IsException(results[i])
         /\ results[j].kind = "FileUploadResult"
         /\ results[k].kind = "FileUploadError"

\* C9: a task that has ended has not ended with an exception: it returned a
\* FileUploadResult, or a FileUploadError with one of the per-item codes.
C9_ItemNeverRaises ==
    \A i \in Items :
        task[i].pc = "done" =>
            /\ ~IsException(results[i])
            /\ results[i].kind = "FileUploadError" => results[i].error_code \in PerItemKinds

\* Photo i's download was requested and the batch was cancelled before
\* the answer arrived.
CancelledInFlight(i) ==
    TaskCancelled(i) /\ fetchCalls[i] > 0 /\ task[i].response = NoBody

\* C10: when the batch call is cancelled while photos are in flight, a
\* PhotoUploadResult is still returned in which every photo that was not
\* uploaded is a failure with error kind CANCELLED, and no client remains
\* open.
C10_CancelYieldsResult ==
    (pc = "done" /\ cancelled /\ \E i \in Items : CancelledInFlight(i)) =>
        /\ result.kind = "PhotoUploadResult"
        /\ \A i \in Items :
             uploadCalls[i] = 0 =>
                 \E k \in DOMAIN result.failed_uploads :
                     /\ result.failed_uploads[k].file_id = request.photos[i].file_id
                     /\ result.failed_uploads[k].error_code = "CANCELLED"
        /\ clients = {}

(***************************************************************************)
(* Validation of the downloaded file (ItemSpec).                           *)
(***************************************************************************)
\* The task of photo i has ended after its download was answered with a body
Fetched(i) == task[i].pc = "done" /\ task[i].response.status = "ok"

\* The content type the task saw (line 382)
FetchedContentType(i) ==
    HeadersGet(task[i].response.headers, "content_type", "image/jpeg")

\* The size of the body is within [min_file_size, max_file_size]
SizeAccepted(i) ==
    /\ task[i].response.size >= min_file_size
    /\ task[i].response.size <= max_file_size

Failure(i, error_code) ==
    results[i].kind = "FileUploadError" /\ results[i].error_code = error_code

Success(i) == results[i].kind = "FileUploadResult"

C12_SizeLimits ==
    \A i \in Items :
        Fetched(i) =>
            /\ task[i].response.size < min_file_size =>
                   Failure(i, "FILE_TOO_SMALL") /\ uploadCalls[i] = 0
            /\ task[i].response.size > max_file_size =>
                   Failure(i, "FILE_TOO_LARGE") /\ uploadCalls[i] = 0
            /\ task[i].response.size \in {min_file_size, max_file_size} =>
                   /\ ~Failure(i, "FILE_TOO_SMALL")
                   /\ ~Failure(i, "FILE_TOO_LARGE")

C12_SizeLimitsWitness ==
    /\ Fetched(1)
    /\ task[1].response.size = min_file_size
    /\ Success(1)

\* The body of photo i passed the size and content type checks
PassedFileChecks(i) ==
    Fetched(i) /\ SizeAccepted(i) /\ FetchedContentType(i) \in supported_content_types

\* The image of photo i decodes and has a side below min_image_dimension
OneSideBelow(i) ==
    /\ task[i].response.image.decodable
    /\ \/ task[i].response.image.width < min_image_dimension
       \/ task[i].response.image.height < min_image_dimension

\* C13: a train photo with one side below min_image_dimension ends as
\* IMAGE_TOO_SMALL without an upload; an inference photo with the same image
\* is uploaded and, the upload done, is a success carrying those dimensions;
\* a train photo with both sides exactly min_image_dimension is uploaded.
C13_DimensionsTrainOnly ==
    \A i \in Items :
        PassedFileChecks(i) =>
            /\ (request.header = "train" /\ OneSideBelow(i)) =>
                   Failure(i, "IMAGE_TOO_SMALL") /\ uploadCalls[i] = 0
            /\ (request.header = "inf" /\ OneSideBelow(i)) =>
                   /\ uploadCalls[i] = 1
                   /\ task[i].upload = "ok" =>
                          /\ Success(i)
                          /\ results[i].width = task[i].response.image.width
                          /\ results[i].height = task[i].response.image.height
            /\ (/\ request.header = "train"
                /\ task[i].response.image
                       = Image(TRUE, min_image_dimension, min_image_dimension)) =>
                   /\ uploadCalls[i] = 1
                   /\ task[i].upload = "ok" => Success(i)

C13_DimensionsWitness ==
    /\ request.header = "inf"
    /\ PassedFileChecks(1)
    /\ OneSideBelow(1)
    /\ Success(1)
    /\ results[1].width = min_image_dimension - 1

\* C14: when the downloaded bytes do not decode as an image, a train photo
\* ends as CORRUPTED_FILE without an upload, and an inference photo is
\* uploaded and, the upload done, is a success with width 0 and height 0.
C14_UndecodableImage ==
    \A i \in Items :
        (PassedFileChecks(i) /\ ~task[i].response.image.decodable) =>
            /\ request.header = "train" =>
                   Failure(i, "CORRUPTED_FILE") /\ uploadCalls[i] = 0
            /\ request.header = "inf" =>
                   /\ uploadCalls[i] = 1
                   /\ task[i].upload = "ok" =>
                          Success(i) /\ results[i].width = 0 /\ results[i].height = 0

C14_UndecodableWitness ==
    /\ request.header = "inf"
    /\ PassedFileChecks(1)
    /\ ~task[1].response.image.decodable
    /\ Success(1)
    /\ results[1].width = 0

(***************************************************************************)
(* Writes to the bucket and the shape of the call's result (OpsSpec).      *)
(***************************************************************************)
\* put_object for photo i completed: its object is in the bucket
Stored(i) == task[i].upload = "ok"

\* C15: every photo whose task returned a FileUploadResult had upload_file
\* invoked once and its object stored, no photo whose task returned a
\* FileUploadError or raised has an object stored, and the number of stored
\* objects equals len(successful_uploads) of the PhotoUploadResult.
C15_OneWritePerSuccess ==
    /\ \A i \in Items :
         /\ uploadCalls[i] <= 1
         /\ Success(i) => uploadCalls[i] = 1 /\ Stored(i)
         /\ (results[i].kind \in {"FileUploadError", "raised"}) => ~Stored(i)
    /\ result.kind = "PhotoUploadResult" =>
           Cardinality({i \in Items : Stored(i)}) = Len(result.successful_uploads)
    /\ result.kind = "InferencePhotoResult" => Stored(1)

C15_OneWriteWitness ==
    /\ result.kind = "PhotoUploadResult"
    /\ \E i, j \in Items :
         /\ Success(i)
         /\ Stored(i)
         /\ task[j].upload = "ClientError"
         /\ Failure(j, "UNEXPECTED_ERROR")

Returned == pc = "done" /\ result.kind # "raised"

\* C17: under either operation, once the call has returned, a photo whose
\* task returned a FileUploadError is in failed_uploads of a
\* PhotoUploadResult, and the result is not a PhotoUploadError.
C17_ItemFailureInBatchResult ==
    Returned =>
        \A i \in Items :
            results[i].kind = "FileUploadError" =>
                /\ result.kind = "PhotoUploadResult"
                /\ \E k \in DOMAIN result.failed_uploads :
                       result.failed_uploads[k] = results[i]

\* C17 (as the code has it): a failed photo of a train batch is in
\* failed_uploads of the PhotoUploadResult; a failed photo of the inference
\* call makes the result a PhotoUploadError with the photo's error_code and
\* file_id.
C17_ItemFailureByOperation ==
    Returned =>
        \A i \in Items :
            results[i].kind = "FileUploadError" =>
                /\ request.header = "train" =>
                       /\ result.kind = "PhotoUploadResult"
                       /\ \E k \in DOMAIN result.failed_uploads :
                              result.failed_uploads[k] = results[i]
                /\ request.header = "inf" =>
                       /\ result.kind = "PhotoUploadError"
                       /\ result.error_code = results[i].error_code
                       /\ result.failed_files = <<request.photos[i].file_id>>

C17_InferenceFailureWitness ==
    /\ request.header = "inf"
    /\ Returned
    /\ Failure(1, "FILE_TOO_SMALL")
    /\ result.kind = "PhotoUploadError"
    /\ result.error_code = "FILE_TOO_SMALL"

(***************************************************************************)
(* Storage keys.                                                           *)
(***************************************************************************)
\* What generate_s3_key returns for photo i when called by its signature
KeyFor(i) ==
    generate_s3_key([chat_id |-> request.user_id,
                     photo_id |-> request.photos[i].file_id,
                     file_extension |-> <<".jpg">>])

\* C18: the keys generate_s3_key returns for two photos of a batch differ,
\* no two successful uploads of a PhotoUploadResult carry the same s3_key,
\* and no two photos have their objects stored under the same key.
C18_KeysNeverCollide ==
    /\ \A i, j \in Items :
         i # j => KeyFor(i).ok /\ KeyFor(j).ok /\ KeyFor(i).value # KeyFor(j).value
    /\ result.kind = "PhotoUploadResult" =>
           \A k, l \in DOMAIN result.successful_uploads :
               k # l => result.successful_uploads[k].s3_key
                            # result.successful_uploads[l].s3_key
    /\ \A i, j \in Items :
         (i # j /\ Stored(i) /\ Stored(j)) => task[i].full_s3_key # task[j].full_s3_key

\* Keys a caller may pass, one of them shaped like an inference path
StorageKeys ==
    {p.s3_key : p \in PhotoFiles}
    \cup {<<"uploads", "/", "inf", "/", "7", "/", "42", "/", "9", "/", "a.jpg">>}

\* C19: the s3_key of every outcome, success or failure, is
\* {bot_id}/{user_id}/{avatar_id}/{key} for a train photo and
\* uploads/{header}/{bot_id}/{user_id}/{avatar_id}/{key} for an inference
\* photo, and the path of a train request is never the path of an inference
\* request, whatever the owners and the keys.
C19_PathRule ==
    /\ \A i \in Items :
         (task[i].pc = "done" /\ results[i].kind \in {"FileUploadResult", "FileUploadError"}) =>
             LET owner == <<request.bot_id, "/", request.user_id, "/",
                            request.avatar_id, "/">>
                 key == request.photos[i].s3_key
             IN  /\ request.header = "train" => results[i].s3_key = owner \o key
                 /\ request.header = "inf" =>
                        results[i].s3_key = <<"uploads", "/", "inf", "/">> \o owner \o key
                 /\ Stored(i) => bucket = {results[i].s3_key}
    /\ \A r1, r2 \in ItemRequests :
         (r1.header = "train" /\ r2.header = "inf") =>
             \A k1, k2 \in StorageKeys :
                 _build_s3_path(r1, k1) # _build_s3_path(r2, k2)

C19_PathRuleWitness ==
    /\ request.header = "inf"
    /\ Failure(1, "DOWNLOAD_TIMEOUT")
    /\ results[1].s3_key
           = <<"uploads", "/", "inf", "/", request.bot_id, "/", request.user_id, "/",
               request.avatar_id, "/">> \o request.photos[1].s3_key

(***************************************************************************)
(* Transport faults of the download and of the upload (ItemSpec).          *)
(***************************************************************************)
\* C20: a download answered with a non-2xx status gives DOWNLOAD_HTTP_ERROR,
\* a download or an upload that runs into its timeout gives
\* DOWNLOAD_TIMEOUT, any other fault of the download or the upload gives
\* UNEXPECTED_ERROR.
C20_FaultKinds ==
    \A i \in Items :
        task[i].pc = "done" =>
            /\ task[i].response.status = "http_error" => Failure(i, "DOWNLOAD_HTTP_ERROR")
            /\ task[i].response.status = "timeout" => Failure(i, "DOWNLOAD_TIMEOUT")
            /\ task[i].upload = "ReadTimeoutError" => Failure(i, "DOWNLOAD_TIMEOUT")
            /\ task[i].response.status = "error" => Failure(i, "UNEXPECTED_ERROR")
            /\ task[i].upload = "ClientError" => Failure(i, "UNEXPECTED_ERROR")

\* C20 (as the code has it): a download answered with a non-2xx status gives
\* DOWNLOAD_HTTP_ERROR, a download that runs into its timeout gives
\* DOWNLOAD_TIMEOUT, any other fault of the download and every fault of the
\* upload, its timeout included, gives UNEXPECTED_ERROR.
C20_FaultKindsOfDownload ==
    \A i \in Items :
        task[i].pc = "done" =>
            /\ task[i].response.status = "http_error" => Failure(i, "DOWNLOAD_HTTP_ERROR")
            /\ task[i].response.status = "timeout" => Failure(i, "DOWNLOAD_TIMEOUT")
            /\ task[i].response.status = "error" => Failure(i, "UNEXPECTED_ERROR")
            /\ task[i].upload \in {"ClientError", "ReadTimeoutError"} =>
                   Failure(i, "UNEXPECTED_ERROR")

C20_UploadTimeoutWitness ==
    /\ task[1].pc = "done"
    /\ task[1].upload = "ReadTimeoutError"
    /\ Failure(1, "UNEXPECTED_ERROR")

(***************************************************************************)
(* The key reported on a failure and the key of a photo without s3_key.    *)
(***************************************************************************)
\* The photo's s3_key is absent, empty or only whitespace (line 321)
BlankKey(photo) == photo.s3_key = <<>> \/ strip(photo.s3_key) = <<>>

\* The full path photo i is to be uploaded under: its own s3_key, or the key
\* generate_s3_key derives for it, behind the owner prefix
AttemptedKey(i) ==
    IF BlankKey(request.photos[i])
    THEN _build_s3_path(request, KeyFor(i).value)
    ELSE _build_s3_path(request, request.photos[i].s3_key)

TransportKinds == {"DOWNLOAD_HTTP_ERROR", "DOWNLOAD_TIMEOUT", "UNEXPECTED_ERROR"}

\* C21: in a returned PhotoUploadResult, the failure reported for a photo
\* with code DOWNLOAD_HTTP_ERROR, DOWNLOAD_TIMEOUT or UNEXPECTED_ERROR
\* carries the full path the photo was to be uploaded under, for a photo
\* with an s3_key of its own and for a photo whose key is generated.
C21_FailureCarriesAttemptedKey ==
    (Returned /\ result.kind = "PhotoUploadResult") =>
        \A i \in Items :
            (IsException(results[i]) \/ results[i].kind = "FileUploadError") =>
                LET f == result.failed_uploads[FailedUpTo(i)]
                IN  f.error_code \in TransportKinds => f.s3_key = AttemptedKey(i)

\* The download of photo i, once requested, is answered with a body that
\* passes every check and put_object stores it
ValidContent(i) ==
    fetchCalls[i] = 1 =>
        /\ task[i].response = ValidResponse
        /\ task[i].upload = "ok"

\* C22: a photo with a non-blank s3_key is stored under that key behind the
\* owner prefix; a photo with a blank s3_key gets the key generate_s3_key
\* derives from user_id, file_id and ".jpg", goes on to its download and,
\* its content valid, is a success under the derived key.
C22_ExplicitOrDerivedKey ==
    \A i \in Items :
        (task[i].pc = "done" /\ ~TaskCancelled(i) /\ ~LocatorFailed(i)
         /\ _validate_url(request.photos[i].file_id) /\ ValidContent(i)) =>
            /\ fetchCalls[i] = 1
            /\ Success(i)
            /\ results[i].s3_key = AttemptedKey(i)
            /\ AttemptedKey(i) \in bucket

(***************************************************************************)
(* The steps of one photo (ItemSpec).                                      *)
(***************************************************************************)
\* C23: a photo whose file_id is a URL never causes a getFile call; any
\* other photo causes exactly one, a fault of it gives the locator's error
\* code (TELEGRAM_API_ERROR), and a URL without scheme or host gives
\* INVALID_TELEGRAM_URL with no download requested.
C23_ResolveOnceUnlessUrl ==
    \A i \in Items :
        task[i].pc = "done" =>
            LET file_id == request.photos[i].file_id
            IN  /\ StartsWithHttp(file_id) => resolveCalls[i] = 0
                /\ ~StartsWithHttp(file_id) => resolveCalls[i] = 1
                /\ LocatorFailed(i) =>
                       Failure(i, "TELEGRAM_API_ERROR") /\ fetchCalls[i] = 0
                /\ (StartsWithHttp(file_id) /\ ~_validate_url(file_id)) =>
                       Failure(i, "INVALID_TELEGRAM_URL") /\ fetchCalls[i] = 0

\* Every step photo i has taken came after the success of the steps before
\* it: the download after the URL was at hand, the upload after a body that
\* passed the size, content type and (train) image checks, the
\* FileUploadResult after the upload.
StepOrder(i) ==
    /\ fetchCalls[i] = 1 =>
           \/ StartsWithHttp(request.photos[i].file_id)
           \/ resolveCalls[i] = 1 /\ task[i].locator = "ok"
    /\ uploadCalls[i] = 1 =>
           /\ fetchCalls[i] = 1
           /\ task[i].response.status = "ok"
           /\ SizeAccepted(i)
           /\ FetchedContentType(i) \in supported_content_types
           /\ request.header = "train" =>
                  /\ task[i].response.image.decodable
                  /\ task[i].response.image.width >= min_image_dimension
                  /\ task[i].response.image.height >= min_image_dimension
    /\ Success(i) => uploadCalls[i] = 1 /\ Stored(i)

\* Once photo i has failed, no further call is made for it and its outcome
\* stays as it is.
FailedIsAbsorbing(i) ==
    (task[i].pc = "done" /\ results[i].kind = "FileUploadError") =>
        /\ results'[i] = results[i]
        /\ resolveCalls'[i] = resolveCalls[i]
        /\ fetchCalls'[i] = fetchCalls[i]
        /\ uploadCalls'[i] = uploadCalls[i]
        /\ task'[i] = task[i]

\* C24: a photo goes through getFile, download, size and content type
\* validation, image validation (train only) and upload in this order,
\* upload_file being called only after every earlier step succeeded, and a
\* failed photo causes no further call and keeps its outcome.
C24_StepOrderAndAbsorbingFailure ==
    /\ [](\A i \in Items : StepOrder(i))
    /\ [][\A i \in Items : FailedIsAbsorbing(i)]_vars

C24_StepOrderWitness ==
    /\ request.header = "train"
    /\ resolveCalls[1] = 1
    /\ fetchCalls[1] = 1
    /\ uploadCalls[1] = 1
    /\ Success(1)
    /\ pc = "done"

\* C25: in one batch run every photo causes at most one getFile call, at
\* most one download and at most one upload_file call, whatever each call
\* answered.
C25_NoRetries ==
    \A i \in Items :
        /\ resolveCalls[i] <= 1
        /\ fetchCalls[i] <= 1
        /\ uploadCalls[i] <= 1

C25_NoRetriesWitness ==
    /\ pc = "done"
    /\ result.kind = "PhotoUploadResult"
    /\ \E i, j, k \in Items :
         /\ LocatorFailed(i) /\ resolveCalls[i] = 1
         /\ task[j].response = Fault("timeout") /\ fetchCalls[j] = 1
         /\ task[k].upload = "ClientError" /\ uploadCalls[k] = 1

(***************************************************************************)
(* The semaphore.                                                          *)
(***************************************************************************)
\* Photos whose task is inside `async with semaphore`
Admitted == {i \in Items : task[i].pc \in {"resolving", "fetching"}}

\* Permits taken from the semaphore
PermitsHeld == max_concurrent_downloads - semaphore

\* C26: key generation is not gated by the semaphore: a photo whose task has
\* not started can always take its first step, which generates its key,
\* also while every permit is held by other photos.
C26_KeyGenerationNotGated ==
    \A i \in Items :
        (pc = "gather" /\ task[i].pc = "waiting") => ENABLED StartItem(i)

\* C26 (as the code has it): the batch validation runs without a permit, but
\* a train photo generates its key only after it has acquired one: a photo
\* that waits has no key and cannot take its first step while every permit
\* is held, and a permit is held from the key generation through getFile,
\* download, validation and upload.
C26_KeyGenerationGated ==
    /\ pc = "start" => ENABLED StartBatch
    /\ \A i \in Items : task[i].pc = "waiting" => task[i].full_s3_key = <<>>
    /\ (pc = "gather" /\ semaphore = 0) =>
           \A i \in Items : task[i].pc = "waiting" => ~ENABLED StartItem(i)
    /\ PermitsHeld = Cardinality(Admitted)

C26_KeyGenerationGatedWitness ==
    /\ pc = "gather"
    /\ semaphore = 0
    /\ \E i \in Items : task[i].pc = "waiting" /\ task[i].full_s3_key = <<>>
    /\ \E j \in Items : task[j].pc = "resolving"

(***************************************************************************)
(* Aggregation.                                                            *)
(***************************************************************************)
\* sum of file_size over a list of FileUploadResult
RECURSIVE SumSizes(_)
SumSizes(uploads) ==
    IF uploads = <<>> THEN 0 ELSE Head(uploads).file_size + SumSizes(Tail(uploads))

\* C27: total_size of a PhotoUploadResult is the sum of file_size over its
\* successful_uploads, which are exactly the FileUploadResults of the tasks;
\* no result exists while a task is still running: the lists and the sum
\* come from the one pass made after every task has ended.
C27_TotalSizeIsSumOfSuccesses ==
    /\ pc = "gather" => result = NoResult
    /\ result.kind = "PhotoUploadResult" =>
           /\ \A i \in Items : task[i].pc = "done"
           /\ result.total_size = SumSizes(result.successful_uploads)
           /\ Len(result.successful_uploads) = Cardinality({i \in Items : Success(i)})
           /\ \A i \in Items :
                  Success(i) => result.successful_uploads[SucceededUpTo(i)] = results[i]

C27_TotalSizeWitness ==
    /\ result.kind = "PhotoUploadResult"
    /\ Len(result.successful_uploads) = 2
    /\ Len(result.failed_uploads) = 1
    /\ result.total_size = 2 * min_file_size

\* C28: an exception raised in _process_batch_training outside the tasks,
\* during the fan-out or during the aggregation, makes the call return a
\* PhotoUploadError with error_code BATCH_PROCESSING_ERROR and every file_id
\* of the request in failed_files; the exception does not reach the caller.
C28_OrchestratorFaultIsCriticalError ==
    /\ [][OrchestratorFault =>
              /\ pc' = "done"
              /\ result'.kind = "PhotoUploadError"
              /\ result'.error_code = "BATCH_PROCESSING_ERROR"
              /\ result'.failed_files = FileIds(request)]_vars
    /\ [](result.kind = "raised" => result.exc \notin OrchestratorFaults)

C28_AggregationFaultWitness ==
    /\ pc = "done"
    /\ _validate_batch(request).ok
    /\ result.kind = "PhotoUploadError"
    /\ result.failed_files = FileIds(request)
    /\ \E i \in Items : Stored(i)

\* C29: under fair scheduling and with every getFile, download and upload call
\* answering, a batch call of any size ends with exactly one PhotoUploadResult
\* or PhotoUploadError, which is never replaced, and no task stays blocked on
\* the semaphore.
C29_BatchCallTerminates ==
    /\ <>(pc = "done" /\ result.kind \in {"PhotoUploadResult", "PhotoUploadError"})
    /\ [](pc # "done" => result = NoResult)
    /\ [][pc = "done" => result' = result]_vars
    /\ \A i \in Slots :
          (i \in Items /\ pc = "gather" /\ task[i].pc = "waiting")
              ~> (i \in Items /\ task[i].pc # "waiting")

C29_LargeBatchReturnedWitness ==
    /\ pc = "done"
    /\ N > max_concurrent_downloads
    /\ result.kind = "PhotoUploadResult"
    /\ result.total_files = N
    /\ \A i \in Items : task[i].pc = "done"
    /\ \E i \in Items : Stored(i)

\* C30: the permits taken from the semaphore are never fewer than none nor
\* more than max_concurrent_downloads, they are held by exactly the photos
\* whose task is between its acquisition and its end, so that a task gives
\* its permit back however it ends, and once the batch call is over every
\* permit is free again.
C30_PermitsBoundedAndReturned ==
    /\ PermitsHeld \in 0..max_concurrent_downloads
    /\ Cardinality(Admitted) = PermitsHeld
    /\ \A i \in Items : task[i].pc = "done" => i \notin Admitted
    /\ pc = "done" => semaphore = max_concurrent_downloads

C30_AllPathsReturnedWitness ==
    /\ pc = "done"
    /\ result.kind = "PhotoUploadResult"
    /\ semaphore = max_concurrent_downloads
    /\ \E i \in Items : results[i].kind = "FileUploadResult" /\ fetchCalls[i] = 1
    /\ \E i \in Items : results[i].kind = "FileUploadError" /\ fetchCalls[i] = 1
    /\ \E i \in Items : results[i].kind = "raised" /\ fetchCalls[i] = 1

(***************************************************************************)
(* A download answer without a content type (ItemSpec).                    *)
(***************************************************************************)
\* The download of photo i was answered with a body and no content-type header
NoContentType(i) ==
    Fetched(i) /\ "content_type" \notin DOMAIN task[i].response.headers

\* C35: a downloaded body without a content-type header never fails as
\* UNSUPPORTED_FORMAT; with its size accepted and, for a train photo, its
\* image accepted, upload_file is invoked for it, and the upload done it is a
\* success whose content_type is image/jpeg.
C35_MissingContentTypeIsJpeg ==
    \A i \in Items :
        NoContentType(i) =>
            /\ ~Failure(i, "UNSUPPORTED_FORMAT")
            /\ ( /\ SizeAccepted(i)
                 /\ \/ request.header = "inf"
                    \/ _validate_image_dimensions(task[i].response.image).is_valid ) =>
                   /\ uploadCalls[i] = 1
                   /\ Stored(i) => Success(i) /\ results[i].content_type = "image/jpeg"

C35_MissingContentTypeWitness ==
    /\ request.header = "train"
    /\ NoContentType(1)
    /\ Success(1)
    /\ results[1].content_type = "image/jpeg"
    /\ bucket # {}

(***************************************************************************)
(* Several calls on one instance (SharedSpec).                             *)
(***************************************************************************)
\* C31: over the batch and the other calls that run on the same instance,
\* the photos whose download or upload is under way are never more than
\* max_concurrent_downloads.
C31_InstanceWideLimit ==
    Cardinality(InFlight) + Cardinality(PeersInFlight) <= max_concurrent_downloads

(***************************************************************************)
(* The train subscriber (HandlerSpec).                                     *)
(***************************************************************************)
\* process_photos refused the request as of an unsupported type
Rejected == result.kind = "raised" /\ result.exc = "ValueError" /\ pc = "start"

\* No photo of the message has failed: none was answered with a fault or
\* with content that is not accepted
NoItemFailed ==
    \A i \in Items : FetchableAndValid(i) /\ results[i].kind \notin {"FileUploadError", "raised"}

\* The handler has ended after its publish was sent
Answered == handler = "done" /\ Len(published) = 1

\* C32: when the train subscriber has answered a message, process_photos had
\* not refused its request as of an unsupported type, and if none of the
\* photos failed the answer is on_preparing_success.
C32_TrainBatchIsRouted ==
    Answered =>
        /\ ~Rejected
        /\ NoItemFailed => published[1].event = "on_preparing_success"

\* C33: the handler publishes at most one response; once it has ended with
\* its publish sent there is exactly one, it is on_preparing_success or
\* on_preparing_error, and its report has as many entries as the report of
\* the message, for the same files in the same order when it is an
\* on_preparing_error.
C33_OneResponsePerMessage ==
    /\ Len(published) <= 1
    /\ handler \in {"received", "processing", "publishing", "publishing_except"} =>
           published = <<>>
    /\ handler = "done" =>
           /\ Len(published) = 1
           /\ published[1].event \in {"on_preparing_success", "on_preparing_error"}
           /\ Len(published[1].data.report) = Len(message.report)
           /\ published[1].event = "on_preparing_error" =>
                  \A i \in 1..Len(message.report) :
                      published[1].data.report[i].file_id = message.report[i].file_id

C33_OneResponseWitness ==
    /\ handler = "done"
    /\ Len(message.report) > 1
    /\ Len(published) = 1
    /\ published[1].event = "on_preparing_error"
    /\ Len(published[1].data.report) = Len(message.report)

====
